---- MODULE Spec2Model ----
(***************************************************************************)
(* State machine of the TicTacToe class of src/Script.js: the board, the   *)
(* turn, the phase flag, the score counters, the winning line and the      *)
(* pending auto-reset timers, driven by cell clicks, the two reset buttons *)
(* and the firing of setTimeout callbacks.                                 *)
(*                                                                         *)
(* DOM rendering and audio playback write no field that the handlers read  *)
(* back (soundEnabled and musicEnabled only gate audio calls), so they are *)
(* not part of the state.                                                  *)
(***************************************************************************)
EXTENDS Integers, Sequences, FiniteSets, TLC

\* Largest number of rounds counted on the scoreboard (X + O + draw) in the
\* model: with that many counted, cells of a game in progress are not clicked.
MaxRounds == 1
\* Largest number of auto-reset callbacks pending at once in the model: with
\* that many pending, cells of a game in progress are not clicked.
MaxTimers == 2
\* Largest integer written into a clicked element's data-index attribute.
MaxIndex == 9

\* Array(9): the number of cells of the board.
BoardSize == 9

VARIABLES
  board,          \* this.board: array of "", "X", "O"
  currentPlayer,  \* this.currentPlayer
  gameIsActive,   \* this.gameIsActive
  scores,         \* this.scores
  winningCells,   \* this.winningCells
  timers,         \* number of setTimeout callbacks scheduled and not yet run
  lastEvent,      \* the event handled by the last step, and what it read
  stale           \* number of pending callbacks scheduled before a manual reset

vars == <<board, currentPlayer, gameIsActive, scores, winningCells, timers, lastEvent, stale>>

\* The value JavaScript yields for a missing array element.
Undefined == "undefined"

Players == {"X", "O"}
ScoreKeys == {"X", "O", "draw"}

winPatterns ==
  << <<0, 1, 2>>, <<3, 4, 5>>, <<6, 7, 8>>,
     <<0, 3, 6>>, <<1, 4, 7>>, <<2, 5, 8>>,
     <<0, 4, 8>>, <<2, 4, 6>> >>

----------------------------------------------------------------------------
(* Numbers as parseInt produces them: an integer or NaN. *)

NaN == [nan |-> TRUE, val |-> 0]
Num(n) == [nan |-> FALSE, val |-> n]

Digits == <<"0", "1", "2", "3", "4", "5", "6", "7", "8", "9">>
IsDigit(c) == \E d \in 1..10 : Digits[d] = c
DigitVal(c) == (CHOOSE d \in 1..10 : Digits[d] = c) - 1

\* Decimal text of an integer, as a sequence of characters.
RECURSIVE NatChars(_)
NatChars(n) == IF n < 10 THEN <<Digits[n + 1]>>
               ELSE NatChars(n \div 10) \o <<Digits[(n % 10) + 1]>>
ToChars(n) == IF n < 0 THEN <<"-">> \o NatChars(0 - n) ELSE NatChars(n)

\* Value of the longest prefix of digits of s, acc being the value read so far.
RECURSIVE DigitPrefix(_, _)
DigitPrefix(s, acc) ==
  IF s = <<>> \/ ~IsDigit(Head(s)) THEN acc
  ELSE DigitPrefix(Tail(s), 10 * acc + DigitVal(Head(s)))

\* parseInt(string): optional sign, then digits up to the first other
\* character; NaN when no digit follows the sign.
parseInt(s) ==
  LET neg  == s # <<>> /\ Head(s) = "-"
      body == IF s # <<>> /\ Head(s) \in {"-", "+"} THEN Tail(s) ELSE s
  IN IF body = <<>> \/ ~IsDigit(Head(body)) THEN NaN
     ELSE Num(IF neg THEN 0 - DigitPrefix(body, 0) ELSE DigitPrefix(body, 0))

\* The data-index attribute values a click may carry.
DataIndexValues ==
  {ToChars(n) : n \in -1..MaxIndex} \cup {<<"x">>, <<"1", "a">>}

\* parseInt(cell.dataset.index) for each of these values.
datasetIndex == [raw \in DataIndexValues |-> parseInt(raw)]

----------------------------------------------------------------------------
(* JavaScript arrays, as functions on 0..length-1. *)

Length(b) == Cardinality(DOMAIN b)

\* b[index]: undefined outside the array.
ArrayGet(b, index) ==
  IF ~index.nan /\ index.val \in DOMAIN b THEN b[index.val] ELSE Undefined

\* b[index] = v: an index past the end grows the array, leaving holes; a
\* negative or NaN index sets a property and leaves the elements alone.
ArrayPut(b, index, v) ==
  IF index.nan \/ index.val < 0 THEN b
  ELSE IF index.val \in DOMAIN b THEN [b EXCEPT ![index.val] = v]
  ELSE [k \in (DOMAIN b) \cup (Length(b)..index.val) |->
          IF k = index.val THEN v
          ELSE IF k \in DOMAIN b THEN b[k] ELSE Undefined]

\* A value that `if (v)` takes as true.
Truthy(v) == v \notin {"", Undefined}

----------------------------------------------------------------------------
(* The object, as a record of its fields. *)

This ==
  [board |-> board, currentPlayer |-> currentPlayer,
   gameIsActive |-> gameIsActive, scores |-> scores,
   winningCells |-> winningCells, timers |-> timers]

ZeroScores == [k \in ScoreKeys |-> 0]

\* The fields after the constructor.
constructor ==
  [board |-> [k \in 0..(BoardSize - 1) |-> ""], currentPlayer |-> "X",
   gameIsActive |-> TRUE, scores |-> ZeroScores,
   winningCells |-> <<>>, timers |-> 0]

\* Faulty test: only a line of X counts.
PatternMatchesOnlyX(b, p) ==
  b[p[1]] = "X" /\ b[p[1]] = b[p[2]] /\ b[p[1]] = b[p[3]]
\* The test of checkWin's loop body for one pattern.
PatternMatches(b, p) ==
  Truthy(b[p[1]]) /\ b[p[1]] = b[p[2]] /\ b[p[1]] = b[p[3]]

\* Faulty loop without the early return: the last matching pattern stays.
RECURSIVE lastMatch(_, _)
lastMatch(b, k) ==
  IF k > Len(winPatterns) THEN 0
  ELSE LET later == lastMatch(b, k + 1)
       IN IF later # 0 THEN later
          ELSE IF PatternMatches(b, winPatterns[k]) THEN k ELSE 0

\* checkWin's loop from pattern k on: the position of the first pattern that
\* matches, 0 when the loop runs out.
RECURSIVE firstMatch(_, _)
firstMatch(b, k) ==
  IF k > Len(winPatterns) THEN 0
  ELSE IF PatternMatches(b, winPatterns[k]) THEN k
  ELSE firstMatch(b, k + 1)

\* Faulty checkWin: the pattern is stored before it is tested, so the last
\* pattern tried stays in winningCells when none matches.
checkWinStoresEarly(t) ==
  LET k == firstMatch(t.board, 1)
  IN IF k = 0
     THEN [found |-> FALSE,
           this |-> [t EXCEPT !.winningCells = winPatterns[Len(winPatterns)]]]
     ELSE [found |-> TRUE, this |-> [t EXCEPT !.winningCells = winPatterns[k]]]
\* checkWin: the first matching pattern is stored and true returned.
checkWin(t) ==
  LET k == firstMatch(t.board, 1)
  IN IF k = 0 THEN [found |-> FALSE, this |-> t]
     ELSE [found |-> TRUE, this |-> [t EXCEPT !.winningCells = winPatterns[k]]]

\* Faulty handleWin: gameIsActive is left set.
handleWinStaysActive(t) ==
  [t EXCEPT !.scores[t.currentPlayer] = @ + 1,
            !.timers = @ + 1]
\* Faulty handleWin: the draw counter is credited instead of the winner's.
handleWinCreditsDraw(t) ==
  [t EXCEPT !.gameIsActive = FALSE,
            !.scores["draw"] = @ + 1,
            !.timers = @ + 1]
\* handleWin: close the round, credit the current player, schedule the reset.
handleWin(t) ==
  [t EXCEPT !.gameIsActive = FALSE,
            !.scores[t.currentPlayer] = @ + 1,
            !.timers = @ + 1]

\* Faulty handleDraw: gameIsActive is left set.
handleDrawStaysActive(t) ==
  [t EXCEPT !.scores["draw"] = @ + 1,
            !.timers = @ + 1]
\* Faulty handleDraw: no auto-reset is scheduled.
handleDrawNoTimer(t) ==
  [t EXCEPT !.gameIsActive = FALSE,
            !.scores["draw"] = @ + 1]
\* handleDraw: close the round, count the draw, schedule the reset.
handleDraw(t) ==
  [t EXCEPT !.gameIsActive = FALSE,
            !.scores["draw"] = @ + 1,
            !.timers = @ + 1]

\* Faulty resetGame: gameIsActive is not set.
resetGameStaysInactive(t) ==
  [t EXCEPT !.board = [k \in DOMAIN t.board |-> ""],
            !.currentPlayer = "X",
            !.winningCells = <<>>]
\* Faulty resetGame: the board is not emptied.
resetGameKeepsBoard(t) ==
  [t EXCEPT !.currentPlayer = "X",
            !.gameIsActive = TRUE,
            !.winningCells = <<>>]
\* Faulty resetGame: currentPlayer is not set back to X.
resetGameKeepsPlayer(t) ==
  [t EXCEPT !.board = [k \in DOMAIN t.board |-> ""],
            !.gameIsActive = TRUE,
            !.winningCells = <<>>]
\* Faulty resetGame: winningCells is not cleared.
resetGameKeepsLine(t) ==
  [t EXCEPT !.board = [k \in DOMAIN t.board |-> ""],
            !.currentPlayer = "X",
            !.gameIsActive = TRUE]
\* Faulty resetGame: the scores are zeroed too.
resetGameZeroesScores(t) ==
  [t EXCEPT !.board = [k \in DOMAIN t.board |-> ""],
            !.currentPlayer = "X",
            !.gameIsActive = TRUE,
            !.winningCells = <<>>,
            !.scores = ZeroScores]
\* resetGame: empty every cell, X to move, active, no winning line.
resetGame(t) ==
  [t EXCEPT !.board = [k \in DOMAIN t.board |-> ""],
            !.currentPlayer = "X",
            !.gameIsActive = TRUE,
            !.winningCells = <<>>]

\* Faulty resetAll: the draw counter is not zeroed.
resetAllKeepsDraws(t) ==
  resetGame([t EXCEPT !.scores = [ZeroScores EXCEPT !["draw"] = t.scores["draw"]]])
\* resetAll: zero the scores, then resetGame.
resetAll(t) == resetGame([t EXCEPT !.scores = ZeroScores])

\* Faulty test `!this.board[index]`: an undefined cell counts as empty.
MoveIsValidFalsy(t, index) == ~Truthy(ArrayGet(t.board, index)) /\ t.gameIsActive
\* Faulty test without `&& this.gameIsActive`.
MoveIsValidIgnoresPhase(t, index) == ArrayGet(t.board, index) = ""
\* Faulty test without `this.board[index] === ""`.
MoveIsValidIgnoresCell(t, index) == t.gameIsActive
\* The condition of handleCellClick's if: cell empty and game active.
MoveIsValid(t, index) == ArrayGet(t.board, index) = "" /\ t.gameIsActive

\* Faulty switch: the turn stays with the mover.
OtherPlayerSame(p) == p
\* Faulty switch: the turn always goes to O.
OtherPlayerStuck(p) == "O"
\* The player to move after p.
OtherPlayer(p) == IF p = "X" THEN "O" ELSE "X"

\* board.every((c) => c !== "")
BoardIsFull(b) == \A k \in DOMAIN b : b[k] # ""

\* Faulty handleCellClick: the full board is tested before the win.
handleCellClickDrawFirst(t, raw) ==
  LET index == datasetIndex[raw]
  IN IF MoveIsValid(t, index)
     THEN LET placed == [t EXCEPT !.board = ArrayPut(t.board, index, t.currentPlayer)]
              win == checkWin(placed)
          IN IF BoardIsFull(placed.board) THEN handleDraw(placed)
             ELSE IF win.found THEN handleWin(win.this)
             ELSE [placed EXCEPT !.currentPlayer = OtherPlayer(@)]
     ELSE t

\* handleCellClick on an element whose data-index attribute is raw.
handleCellClick(t, raw) ==
  LET index == datasetIndex[raw]
  IN IF MoveIsValid(t, index)
     THEN LET placed == [t EXCEPT !.board = ArrayPut(t.board, index, t.currentPlayer)]
              win == checkWin(placed)
          IN IF win.found THEN handleWin(win.this)
             ELSE IF BoardIsFull(win.this.board) THEN handleDraw(win.this)
             ELSE [win.this EXCEPT !.currentPlayer = OtherPlayer(@)]
     ELSE t

\* The setTimeout callback of handleWin and handleDraw: resetGame; the rest
\* of the callback removes CSS classes.  One pending callback is consumed.
autoReset(t) == [resetGame(t) EXCEPT !.timers = @ - 1]

----------------------------------------------------------------------------
(* The state machine. *)

\* The handler's result becomes the object's fields.
Becomes(t) ==
  /\ board' = t.board
  /\ currentPlayer' = t.currentPlayer
  /\ gameIsActive' = t.gameIsActive
  /\ scores' = t.scores
  /\ winningCells' = t.winningCells
  /\ timers' = t.timers

\* A round can still be played to its end within the model's bounds.
HasRoom ==
  /\ scores["X"] + scores["O"] + scores["draw"] < MaxRounds
  /\ timers < MaxTimers

\* What a step handled: the handler, the value a click read from
\* board[index] and whether the click passed handleCellClick's test.
Event(op, cell, accepted) == [op |-> op, cell |-> cell, accepted |-> accepted]

Init ==
  /\ board = constructor.board
  /\ currentPlayer = constructor.currentPlayer
  /\ gameIsActive = constructor.gameIsActive
  /\ scores = constructor.scores
  /\ winningCells = constructor.winningCells
  /\ timers = constructor.timers
  /\ lastEvent = Event("constructor", Undefined, FALSE)
  /\ stale = 0

\* A click on a cell whose data-index attribute is raw.
CellClick(raw) ==
  /\ gameIsActive => HasRoom
  /\ Becomes(handleCellClick(This, raw))
  /\ lastEvent' = Event("handleCellClick", ArrayGet(board, datasetIndex[raw]),
                        MoveIsValid(This, datasetIndex[raw]))

\* A click on the restart button.
RestartClick ==
  /\ Becomes(resetGame(This))
  /\ lastEvent' = Event("resetGame", Undefined, FALSE)

\* A click on the reset-all button.
ResetAllClick ==
  /\ Becomes(resetAll(This))
  /\ lastEvent' = Event("resetAll", Undefined, FALSE)

\* A pending auto-reset callback runs.
TimerFire ==
  /\ timers > 0
  /\ Becomes(autoReset(This))
  /\ lastEvent' = Event("autoReset", Undefined, FALSE)

\* The program's steps, the age of the pending callbacks not followed.
Next ==
  \/ \E raw \in DataIndexValues : CellClick(raw) /\ UNCHANGED stale
  \/ RestartClick /\ UNCHANGED stale
  \/ ResetAllClick /\ UNCHANGED stale
  \/ TimerFire /\ UNCHANGED stale

Spec == Init /\ [][Next]_vars

\* A callback handed to setTimeout runs once its 2000 ms have passed: a
\* pending callback is not put off for ever.
FairSpec == Spec /\ WF_vars(TimerFire /\ UNCHANGED stale)

----------------------------------------------------------------------------
(* The same steps with the age of the pending callbacks followed.  The       *)
(* callbacks all wait 2000 ms, so they run in the order they were scheduled: *)
(* the callbacks a manual reset found pending are the oldest ones.           *)

\* A cell click neither runs nor supersedes a callback; the one a round's end
\* schedules is newer than every superseded one.
StaleCellClick(raw) == CellClick(raw) /\ stale' = stale

\* The restart button supersedes every callback pending.
StaleRestartClick == RestartClick /\ stale' = timers

\* The reset-all button supersedes every callback pending.
StaleResetAllClick == ResetAllClick /\ stale' = timers

\* The oldest pending callback runs: a superseded one, if there is any.
StaleTimerFire == TimerFire /\ stale' = IF stale > 0 THEN stale - 1 ELSE 0

StaleNext ==
  \/ \E raw \in DataIndexValues : StaleCellClick(raw)
  \/ StaleRestartClick
  \/ StaleResetAllClick
  \/ StaleTimerFire

StaleSpec == Init /\ [][StaleNext]_vars

----------------------------------------------------------------------------
(* Vocabulary of the properties, read off the board alone. *)

Cells == 0..(BoardSize - 1)

\* The number of cells of b holding mark p.
Count(b, p) == Cardinality({k \in DOMAIN b : b[k] = p})

\* Player p holds the three cells of some win pattern of b.
HasLine(b, p) ==
  \E k \in 1..Len(winPatterns) : \A j \in 1..3 : b[winPatterns[k][j]] = p

HasEmptyCell(b) == \E k \in DOMAIN b : b[k] = ""

EmptyBoard == [k \in Cells |-> ""]

\* The step is a cell click, accepted or not.
IsClick == lastEvent'.op = "handleCellClick"

\* The step is a cell click that passed the handler's test: a move.
IsMove == IsClick /\ lastEvent'.accepted

\* The index lies outside the board: NaN, negative or past the last cell.
OutsideBoard(index) == index.nan \/ index.val \notin Cells

----------------------------------------------------------------------------
\* C1: in every reachable state the board holds exactly as many X as O, or
\* exactly one more X than O.
C1_BoardBalanced ==
  Count(board, "X") - Count(board, "O") \in {0, 1}

\* A round in progress with a move ahead for X, while an auto-reset
\* scheduled by an earlier round is still pending.
C1_Witness ==
  /\ gameIsActive
  /\ timers > 0
  /\ Count(board, "X") = 2
  /\ Count(board, "O") = 1

\* C2: a move that completes a win pattern for the mover ends the round with
\* the mover as winner: the game is inactive, currentPlayer is still the
\* mover, the mover's counter is one higher and the other two are unchanged.
C2_WinningMove ==
  [][(IsMove /\ HasLine(board', currentPlayer)) =>
       /\ gameIsActive' = FALSE
       /\ currentPlayer' = currentPlayer
       /\ scores' = [scores EXCEPT ![currentPlayer] = @ + 1]]_vars

\* O has just completed a line and been credited.
C2_Witness ==
  /\ lastEvent.op = "handleCellClick"
  /\ lastEvent.accepted
  /\ HasLine(board, "O")
  /\ currentPlayer = "O"
  /\ ~gameIsActive
  /\ scores = [ZeroScores EXCEPT !["O"] = 1]

\* C3: a move that leaves no completed win pattern keeps the game active and
\* the scores unchanged while a cell is empty, and when it fills the ninth
\* cell it ends the round as a draw: the game is inactive, there are no
\* winning cells, the draw counter is one higher and X and O are unchanged.
C3_DrawOnNinthMove ==
  [][(IsMove /\ ~HasLine(board', "X") /\ ~HasLine(board', "O")) =>
       IF HasEmptyCell(board')
       THEN gameIsActive' = TRUE /\ scores' = scores
       ELSE /\ gameIsActive' = FALSE
            /\ winningCells' = <<>>
            /\ scores' = [scores EXCEPT !["draw"] = @ + 1]]_vars

\* The ninth move has filled the board without a line.
C3_Witness ==
  /\ lastEvent.op = "handleCellClick"
  /\ lastEvent.accepted
  /\ ~HasEmptyCell(board)
  /\ ~HasLine(board, "X") /\ ~HasLine(board, "O")
  /\ ~gameIsActive
  /\ winningCells = <<>>
  /\ scores = [ZeroScores EXCEPT !["draw"] = 1]

\* C4: while the game is inactive, a click on any cell changes none of the
\* board, the player, the phase, the winning cells and the scores, and
\* schedules no auto-reset.
C4_TerminalClickInert ==
  [][(IsClick /\ ~gameIsActive) =>
       UNCHANGED <<board, currentPlayer, gameIsActive, winningCells, scores, timers>>]_vars

\* An empty cell has been clicked after the round ended with a win.
C4_Witness ==
  /\ lastEvent.op = "handleCellClick"
  /\ lastEvent.cell = ""
  /\ ~lastEvent.accepted
  /\ ~gameIsActive
  /\ winningCells # <<>>

\* C5: a click on a cell that holds X or O changes none of the board, the
\* player, the phase, the scores and the winning cells, in any phase.
C5_OccupiedClickInert ==
  [][(IsClick /\ lastEvent'.cell \in Players) =>
       UNCHANGED <<board, currentPlayer, gameIsActive, scores, winningCells>>]_vars

\* An occupied cell has been clicked in a game in progress.
C5_Witness ==
  /\ lastEvent.op = "handleCellClick"
  /\ lastEvent.cell \in Players
  /\ gameIsActive

\* C6: a click whose index is outside 0..8 (negative, too large or NaN) is
\* rejected: the board with its nine cells, the player, the phase, the
\* winning cells and the scores are unchanged.
C6_OutsideClickInert ==
  [][\A raw \in DataIndexValues :
       (OutsideBoard(datasetIndex[raw]) /\ CellClick(raw)) =>
         /\ ~lastEvent'.accepted
         /\ DOMAIN board' = Cells
         /\ UNCHANGED <<board, currentPlayer, gameIsActive, winningCells, scores>>]_vars

\* A click has read a cell outside the board in a game in progress.
C6_Witness ==
  /\ lastEvent.op = "handleCellClick"
  /\ lastEvent.cell = Undefined
  /\ ~lastEvent.accepted
  /\ gameIsActive
  /\ HasEmptyCell(board)

\* C7: resetGame, called from the restart button or from the auto-reset
\* callback, yields nine empty cells, X to move, an active game and no
\* winning cells, and leaves the three counters unchanged.
C7_ResetGame ==
  [][lastEvent'.op \in {"resetGame", "autoReset"} =>
       /\ board' = EmptyBoard
       /\ currentPlayer' = "X"
       /\ gameIsActive' = TRUE
       /\ winningCells' = <<>>
       /\ scores' = scores]_vars

\* The restart button has been pressed after a win of O, before the
\* auto-reset of that round ran.
C7_Witness ==
  /\ lastEvent.op = "resetGame"
  /\ scores["O"] = 1
  /\ timers > 0

\* The fields after the step, as a record.
ThisNext ==
  [board |-> board', currentPlayer |-> currentPlayer',
   gameIsActive |-> gameIsActive', scores |-> scores',
   winningCells |-> winningCells', timers |-> timers']

\* C8: resetAll yields the board, player, phase and winning cells of
\* resetGame and three counters at 0: the state resetGame followed by
\* zeroing the scores yields.
C8_ResetAll ==
  [][lastEvent'.op = "resetAll" =>
       /\ ThisNext = [resetGame(This) EXCEPT !.scores = ZeroScores]
       /\ board' = EmptyBoard
       /\ currentPlayer' = "X"
       /\ gameIsActive' = TRUE
       /\ winningCells' = <<>>
       /\ \A k \in ScoreKeys : scores'[k] = 0]_vars

\* The reset-all button has been pressed while an auto-reset was pending.
C8_Witness ==
  /\ lastEvent.op = "resetAll"
  /\ timers > 0
  /\ scores = ZeroScores

\* C9: a move places the mark of currentPlayer, which is X exactly when the
\* board held an even number of marks; a move that neither wins nor fills
\* the board hands the turn to the other player; a rejected click leaves
\* currentPlayer alone.
C9_TurnsAlternate ==
  [][/\ IsMove =>
          /\ \E i \in Cells :
               /\ board[i] = ""
               /\ board' = [board EXCEPT ![i] = currentPlayer]
          /\ (currentPlayer = "X") <=> ((Count(board, "X") + Count(board, "O")) % 2 = 0)
          /\ (~HasLine(board', currentPlayer) /\ HasEmptyCell(board')) =>
               /\ currentPlayer' # currentPlayer
               /\ currentPlayer' \in Players
     /\ (IsClick /\ ~lastEvent'.accepted) => currentPlayer' = currentPlayer]_vars

\* The fourth move of a round has handed the turn back to X.
C9_Witness ==
  /\ lastEvent.op = "handleCellClick"
  /\ lastEvent.accepted
  /\ gameIsActive
  /\ currentPlayer = "X"
  /\ Count(board, "X") = 2
  /\ Count(board, "O") = 2

\* C10: only resetAll lowers a counter; resetGame and the auto-reset leave
\* the counters alone; a click changes them only by adding 1 to one counter,
\* at the step that ends the round.
C10_ScoresPersist ==
  [][/\ (\E k \in ScoreKeys : scores'[k] < scores[k]) => lastEvent'.op = "resetAll"
     /\ lastEvent'.op \in {"resetGame", "autoReset"} => scores' = scores
     /\ (IsClick /\ scores' # scores) =>
          /\ \E k \in ScoreKeys : scores' = [scores EXCEPT ![k] = @ + 1]
          /\ gameIsActive /\ ~gameIsActive']_vars

\* The auto-reset has run and the counter of the round it closed stands.
C10_Witness ==
  /\ lastEvent.op = "autoReset"
  /\ scores["X"] = 1
  /\ board = EmptyBoard

C12_TerminalPhaseLeft ==
  /\ [][(IsMove /\ ~gameIsActive') => timers' = timers + 1]_vars
  /\ [][lastEvent'.op = "autoReset" =>
          /\ scores' = scores
          /\ board' = EmptyBoard /\ gameIsActive' /\ currentPlayer' = "X"]_vars
  /\ (~gameIsActive) ~> (gameIsActive /\ board = EmptyBoard /\ currentPlayer = "X")

\* The auto-reset has run after a draw, with no other callback pending.
C12_Witness ==
  /\ lastEvent.op = "autoReset"
  /\ timers = 0
  /\ scores = [ZeroScores EXCEPT !["draw"] = 1]
  /\ gameIsActive /\ board = EmptyBoard /\ currentPlayer = "X"

\* The win patterns the step completes: those with a cell empty before it
\* and all three cells holding the mover's mark after it.
FreshLines ==
  {k \in 1..Len(winPatterns) :
     /\ \E j \in 1..3 : board[winPatterns[k][j]] = ""
     /\ \A j \in 1..3 : board'[winPatterns[k][j]] = currentPlayer}

\* C13, as claimed: a move completes at most one win pattern.
C13_OneLinePerMove ==
  [][IsMove => Cardinality(FreshLines) <= 1]_vars

\* C13, amended: a move completes at most two win patterns.
C13_AtMostTwoLines ==
  [][IsMove => Cardinality(FreshLines) <= 2]_vars

\* The win patterns player p holds on board b.
LinesOf(b, p) ==
  {k \in 1..Len(winPatterns) : \A j \in 1..3 : b[winPatterns[k][j]] = p}

\* A winning move has just completed two patterns at once.
C13_Witness ==
  /\ lastEvent.op = "handleCellClick"
  /\ lastEvent.accepted
  /\ ~gameIsActive
  /\ Cardinality(LinesOf(board, currentPlayer)) = 2

\* The order of the win patterns, as C14 gives it.
C14_Order ==
  << <<0, 1, 2>>, <<3, 4, 5>>, <<6, 7, 8>>, <<0, 3, 6>>,
     <<1, 4, 7>>, <<2, 5, 8>>, <<0, 4, 8>>, <<2, 4, 6>> >>

\* The three cells of pattern p of board b are non-empty and equal.
Aligned(b, p) ==
  /\ b[p[1]] \in Players
  /\ b[p[2]] = b[p[1]]
  /\ b[p[3]] = b[p[1]]

\* C14: after a winning move winningCells is the first pattern, in the order
\* [0,1,2],[3,4,5],[6,7,8],[0,3,6],[1,4,7],[2,5,8],[0,4,8],[2,4,6], whose
\* three cells are non-empty and equal, also when several patterns match.
C14_FirstPatternRecorded ==
  [][(IsMove /\ \E k \in 1..8 : Aligned(board', C14_Order[k])) =>
       \E k \in 1..8 :
         /\ winningCells' = C14_Order[k]
         /\ Aligned(board', C14_Order[k])
         /\ \A g \in 1..(k - 1) : ~Aligned(board', C14_Order[g])]_vars

\* A move has completed the first row and the first column at once and the
\* row, the earlier of the two, is recorded.
C14_Witness ==
  /\ lastEvent.op = "handleCellClick"
  /\ lastEvent.accepted
  /\ Aligned(board, <<0, 1, 2>>)
  /\ Aligned(board, <<0, 3, 6>>)
  /\ winningCells = <<0, 1, 2>>

\* C15: when the move that fills the ninth cell also completes a win pattern
\* for the mover, the round ends as a win: the mover's counter is one higher,
\* the winning cells are a pattern the mover holds, and the draw counter is
\* not incremented.
C15_WinBeforeDraw ==
  [][(IsMove /\ ~HasEmptyCell(board') /\ HasLine(board', currentPlayer)) =>
       /\ gameIsActive' = FALSE
       /\ currentPlayer' = currentPlayer
       /\ scores'[currentPlayer] = scores[currentPlayer] + 1
       /\ scores'["draw"] = scores["draw"]
       /\ \E k \in LinesOf(board', currentPlayer) : winningCells' = winPatterns[k]]_vars

\* The ninth move has completed a line for X: a win is counted, no draw.
C15_Witness ==
  /\ lastEvent.op = "handleCellClick"
  /\ lastEvent.accepted
  /\ ~HasEmptyCell(board)
  /\ HasLine(board, "X")
  /\ winningCells # <<>>
  /\ scores = [ZeroScores EXCEPT !["X"] = 1]

\* C16: winningCells is non-empty only in a game that ended with a win; it
\* is then one of the 8 win patterns and its three cells hold the mark of
\* currentPlayer; it is empty in a game in progress and in a draw.
C16_WinningCellsOnlyWhenWon ==
  /\ winningCells # <<>> =>
       /\ ~gameIsActive
       /\ \E k \in 1..Len(winPatterns) : winningCells = winPatterns[k]
       /\ \A j \in 1..3 : board[winningCells[j]] = currentPlayer
  /\ gameIsActive => winningCells = <<>>
  /\ (~gameIsActive /\ ~HasLine(board, "X") /\ ~HasLine(board, "O")) =>
       winningCells = <<>>

\* O has won on the diagonal [2,4,6].
C16_Witness ==
  /\ ~gameIsActive
  /\ winningCells = <<2, 4, 6>>
  /\ currentPlayer = "O"
  /\ \A j \in 1..3 : board[winningCells[j]] = "O"

\* The phase, read off the fields: in progress, won by the player whose turn
\* it was, or drawn.
Phase(active, cells, player) ==
  IF active THEN "InProgress"
  ELSE IF cells # <<>> THEN "Won" \o player
  ELSE "Draw"

PhaseNow == Phase(gameIsActive, winningCells, currentPlayer)
PhaseNext == Phase(gameIsActive', winningCells', currentPlayer')

\* C17: the phase changes only from in progress to won(p) by a move that
\* completes a line for p, from in progress to draw by a move that fills the
\* last empty cell without a line, and from won or draw to in progress by
\* resetGame, resetAll or the auto-reset; a cell click never leaves a
\* terminal phase.
C17_PhaseTransitions ==
  [][/\ PhaseNext # PhaseNow =>
          \/ /\ PhaseNow = "InProgress"
             /\ PhaseNext = "Won" \o currentPlayer
             /\ IsMove
             /\ FreshLines # {}
          \/ /\ PhaseNow = "InProgress"
             /\ PhaseNext = "Draw"
             /\ IsMove
             /\ HasEmptyCell(board) /\ ~HasEmptyCell(board')
             /\ ~HasLine(board', "X") /\ ~HasLine(board', "O")
          \/ /\ PhaseNow # "InProgress"
             /\ PhaseNext = "InProgress"
             /\ lastEvent'.op \in {"resetGame", "resetAll", "autoReset"}
     /\ (IsClick /\ PhaseNow # "InProgress") => PhaseNext = PhaseNow]_vars

\* The auto-reset has taken the game out of a round won by O.
C17_Witness ==
  /\ lastEvent.op = "autoReset"
  /\ PhaseNow = "InProgress"
  /\ timers = 0
  /\ scores = [ZeroScores EXCEPT !["O"] = 1]

\* C18: the game is active exactly when the board has no completed win
\* pattern and at least one empty cell.
C18_ActiveIffPlayable ==
  gameIsActive <=>
    (~HasLine(board, "X") /\ ~HasLine(board, "O") /\ HasEmptyCell(board))

\* A game in progress with one empty cell left and no line.
C18_Witness ==
  /\ gameIsActive
  /\ Count(board, "X") = 4
  /\ Count(board, "O") = 4
  /\ ~HasLine(board, "X") /\ ~HasLine(board, "O")

\* C19: the board never holds a full line of X together with a full line
\* of O.
C19_OneWinnerAtMost ==
  ~(HasLine(board, "X") /\ HasLine(board, "O"))

\* O has completed a line on a board where X holds four cells.
C19_Witness ==
  /\ HasLine(board, "O")
  /\ ~HasLine(board, "X")
  /\ Count(board, "X") = 4
  /\ Count(board, "O") = 4

\* C20: in an active game currentPlayer is X exactly when the board holds as
\* many X as O, and O exactly when it holds one more X than O.
C20_PlayerAgreesWithBoard ==
  gameIsActive =>
    /\ (currentPlayer = "X") <=> (Count(board, "X") = Count(board, "O"))
    /\ (currentPlayer = "O") <=> (Count(board, "X") = Count(board, "O") + 1)

\* An auto-reset scheduled by a round that reset-all has since wiped from
\* the scoreboard has run on the game in progress.
C20_Witness ==
  /\ lastEvent.op = "autoReset"
  /\ gameIsActive
  /\ scores = ZeroScores
  /\ currentPlayer = "X"
  /\ Count(board, "X") = 0
  /\ Count(board, "O") = 0

====
